---- MODULE Spec2Model ----
(***************************************************************************)
(* Model of MedicalRAGEngine (src/rag_engine.py) and of the document       *)
(* processing loop of the Streamlit front end (src/app.py).                *)
(*                                                                         *)
(* The vector store, the embedding model, the chat model and the PDF       *)
(* loader are external services.  Each call to one of them is a step whose *)
(* outcome (a value, or an exception) is chosen nondeterministically.      *)
(* Strings returned to the caller are sequences of parts, so that prefixes,*)
(* suffixes and the lines of the source list can be inspected.             *)
(***************************************************************************)
EXTENDS Integers, Sequences, FiniteSets, TLC

\* ------------------------------------------------------------------ bounds
MaxChunks == 2     \* chunks the splitter produces for one document
MaxEntries == 3    \* entries the collection holds
MaxTmp == 2        \* temporary files left on disk
MaxBatch == 2      \* files of one "Process Documents" click

\* ------------------------------------------------------- program constants
K == 5             \* query(question, k=5)

Files == {"a.pdf", "b.pdf"}
Questions == {"q1"}
NoQuestion == "-"

\* Distances the index reports, in units of 10^-5 (0.12340, 0.50006, 1.23457).
\* None of them makes (1 - d) * 100 a decimal tie at two places.
Distances == {12340, 50006, 123457}

Range(s) == {s[i] : i \in 1..Len(s)}

\* ----------------------------------------------------------------- strings
\* A returned string is a sequence of parts: fixed texts, opaque texts (a
\* model response, an exception message) and lines of the source list.
Text(s) == [t |-> "text", s |-> s, rel |-> 0]
Line(src, rel) == [t |-> "line", s |-> src, rel |-> rel]

OutOfContextMsg == <<Text("**Out of Context**: This question appears to be unrelated to medicine")>>
DisclaimerNote == Text("**Note**: No medical literature loaded. Response based on general medical knowledge only.")
SourcesHeader == Text("### Document Sources:")
ErrGenerating == Text("Error generating response: ")
ErrProcessing == Text("Error processing query: ")
FallbackContent == Text("<response to fallback_prompt>")
GroundedContent == Text("<response to enhanced_prompt>")

\* str(e) of the exception raised at a failure point
ExcMsg(point) == Text("<exception at " \o point \o ">")

\* ------------------------------------------------------------- topic gate
\* Texts the chat model may answer the classification prompt with, as
\* sequences of characters.
GateTexts ==
  { <<"t","r","u","e">>,
    <<"T","r","u","e">>,
    <<"T","R","U","E">>,
    <<"f","a","l","s","e">>,
    <<"F","a","l","s","e">>,
    <<"u","n","t","r","u","e">>,
    <<"t","r","u">>,
    <<>> }

\* Outcomes of self.llm.invoke(context_prompt): an exception (service error,
\* timeout), a response whose content is None, or a response with a text.
ClassifyOutcomes ==
  {[kind |-> "raise", content |-> <<>>], [kind |-> "nocontent", content |-> <<>>]}
    \cup {[kind |-> "text", content |-> s] : s \in GateTexts}

\* str.lower() on the characters used
LowerChar(c) ==
  CASE c = "T" -> "t"
    [] c = "R" -> "r"
    [] c = "U" -> "u"
    [] c = "E" -> "e"
    [] c = "F" -> "f"
    [] OTHER -> c

Lower(s) == [i \in 1..Len(s) |-> LowerChar(s[i])]

\* sub in s
Contains(sub, s) ==
  \E i \in 1..(Len(s) - Len(sub) + 1) : SubSeq(s, i, i + Len(sub) - 1) = sub

\* a mutated gate: fails closed
IsMedicalQuestionFailClosed(o) ==
  IF o.kind = "text" THEN Contains(<<"t","r","u","e">>, Lower(o.content)) ELSE FALSE

\* _is_medical_question, given the outcome of the classification call
IsMedicalQuestion(o) ==
  IF o.kind = "raise" THEN TRUE                 \* except Exception: return True
  ELSE IF o.kind = "nocontent" THEN TRUE        \* None.lower() raises AttributeError
  ELSE Contains(<<"t","r","u","e">>, Lower(o.content))

\* gate: the _is_medical_question call of the last step, if it was one
NoGate == [outcome |-> [kind |-> "none", content |-> <<>>], verdict |-> FALSE]

\* ret: the operation that returned last and what it returned, until the
\* next operation is called
NoRet == [op |-> "none"]

\* ------------------------------------------------------------------ store
\* handle: the engine's self.vectorstore.  "ok": a Chroma handle on the live
\* collection; "stale": a handle whose collection was deleted (the
\* re-initialisation after delete_collection failed); "none": None, which the
\* constructor never leaves behind.
Chunk(file, i) == [source |-> file, chunk_id |-> i]

\* chunks 0..n-1 of a document, tagged by the metadata loop
Chunks(file, n) == [i \in 1..n |-> Chunk(file, i - 1)]

\* bool(self.vectorstore): None is false; a handle is true unless the wrapper
\* defines __len__ (then an empty collection is false, and counting a deleted
\* collection raises).
TruthOutcomes(h, es) ==
  IF h = "none" THEN {"false"}
  ELSE IF h = "stale" THEN {"true", "raise"}
  ELSE IF es = <<>> THEN {"true", "false"}
  ELSE {"true"}

VARIABLES
  entries,     \* the collection: a sequence of chunks
  handle,      \* self.vectorstore
  tmpfiles,    \* temporary PDF files on disk
  batch,       \* files of the running "Process Documents" loop still to do
  qpc,         \* where the running query is
  question,    \* its argument
  calls,       \* the external calls it issued, in order
  qcount,      \* what count() returned to it (-1: not called)
  contexts,    \* what _extract_relevant_contexts returned to it
  gate,        \* outcome and verdict of the last _is_medical_question call
  ret          \* the last operation that returned, with its return value

vars == <<entries, handle, tmpfiles, batch, qpc, question, calls, qcount, contexts, gate, ret>>

qlocals == <<qpc, question, calls, qcount, contexts>>

Init ==
  /\ entries \in {<<>>, <<Chunk("a.pdf", 0)>>}   \* a new or an existing database
  /\ handle = "ok"
  /\ tmpfiles = 0
  /\ batch = <<>>
  /\ qpc = "idle"
  /\ question = NoQuestion
  /\ calls = <<>>
  /\ qcount = -1
  /\ contexts = <<>>
  /\ gate = NoGate
  /\ ret = NoRet

\* --------------------------------------------------------------- ingestion
\* Where add_document can fail: creating the temporary file, reading the
\* upload into it, loading the PDF, splitting, add_documents, persist, unlink.
FailPoints == {"none", "tmpfile", "read", "load", "split", "add", "persist", "unlink"}

\* The step at which an add_document call with planned failure f stops: a
\* handle without a collection makes add_documents raise.
FailsAt(h, f) ==
  IF h = "stale" /\ f \in {"none", "add", "persist", "unlink"} THEN "add" ELSE f

\* a mutated handler: the exception of persist() is not caught
AddDocumentPersistUncaught(es, h, tmp, file, n, f) ==
  LET at == FailsAt(h, f)
      committed == at \in {"none", "persist", "unlink"}
  IN [ entries |-> IF committed THEN es \o Chunks(file, n) ELSE es,
       tmpfiles |-> IF at \in {"none", "tmpfile"} THEN tmp ELSE tmp + 1,
       raised |-> at = "persist",
       result |-> IF at = "none"
                  THEN [status |-> "success", filename |-> file, chunks_created |-> n]
                  ELSE [status |-> "error", filename |-> file, error |-> ExcMsg(at)] ]

\* add_document(file) on a store es behind handle h with tmp temporary files
\* on disk, for a document of n chunks: the store and the disk it leaves and
\* what it returns.  add_documents writes the whole batch in one call; a
\* failure of that call leaves the collection as it was.
AddDocument(es, h, tmp, file, n, f) ==
  LET at == FailsAt(h, f)
      \* add_documents returned: the chunks are in the collection
      committed == at \in {"none", "persist", "unlink"}
  IN [ entries |-> IF committed THEN es \o Chunks(file, n) ELSE es,
       \* os.unlink(tmp_path) runs on the success path only
       tmpfiles |-> IF at \in {"none", "tmpfile"} THEN tmp ELSE tmp + 1,
       \* except Exception: every failure becomes a returned record
       raised |-> FALSE,
       result |-> IF at = "none"
                  THEN [status |-> "success", filename |-> file, chunks_created |-> n]
                  ELSE [status |-> "error", filename |-> file, error |-> ExcMsg(at)] ]

\* what the loop shows for a file: st.success after the call returned,
\* st.error when it raised
Report(raised) == IF raised THEN "error" ELSE "processed"

\* the "Process Documents" button: the loop over the uploaded files starts
ProcessDocuments(files) ==
  /\ batch = <<>>
  /\ batch' = files
  /\ ret' = NoRet
  /\ gate' = NoGate
  /\ UNCHANGED <<entries, handle, tmpfiles, qlocals>>

\* one iteration of the loop: add_document(file), then the report; the loop
\* goes on to the next file whatever the call did
AddDocumentStep ==
  /\ batch # <<>>
  /\ \E n \in 0..MaxChunks, f \in FailPoints :
       LET file == Head(batch)
           r == AddDocument(entries, handle, tmpfiles, file, n, f)
       IN /\ Len(r.entries) <= MaxEntries
          /\ r.tmpfiles <= MaxTmp
          /\ entries' = r.entries
          /\ tmpfiles' = r.tmpfiles
          /\ ret' = [op |-> "add_document", file |-> file, chunks |-> n, fail |-> f,
                     at |-> FailsAt(handle, f), raised |-> r.raised,
                     result |-> r.result, report |-> Report(r.raised)]
  /\ batch' = Tail(batch)
  /\ gate' = NoGate
  /\ UNCHANGED <<handle, qlocals>>

\* ---------------------------------------------------------- administration
\* Where clear_database can fail: delete_collection, or the Chroma(...) of
\* _initialize_vectorstore that follows it.
ClearFailPoints == {"none", "delete", "init"}

\* a mutated clear_database: reports success whatever happened
ClearDatabaseAlwaysSuccess(es, h, truth, f) ==
  IF truth = "raise" THEN [entries |-> es, handle |-> h, status |-> "success"]
  ELSE IF truth = "false" THEN [entries |-> es, handle |-> h, status |-> "success"]
  ELSE IF h = "stale" \/ f = "delete" THEN [entries |-> es, handle |-> h, status |-> "success"]
  ELSE IF f = "init" THEN [entries |-> <<>>, handle |-> "stale", status |-> "success"]
  ELSE [entries |-> <<>>, handle |-> "ok", status |-> "success"]

\* clear_database() given the truth value of the handle and the planned
\* failure: the store and the handle it leaves, and the status it returns
ClearDatabaseResult(es, h, truth, f) ==
  IF truth = "raise" THEN [entries |-> es, handle |-> h, status |-> "error"]
  ELSE IF truth = "false" THEN [entries |-> es, handle |-> h, status |-> "success"]
  \* delete_collection raised: nothing was deleted
  ELSE IF h = "stale" \/ f = "delete" THEN [entries |-> es, handle |-> h, status |-> "error"]
  \* _initialize_vectorstore raised: self.vectorstore still is the old handle
  ELSE IF f = "init" THEN [entries |-> <<>>, handle |-> "stale", status |-> "error"]
  ELSE [entries |-> <<>>, handle |-> "ok", status |-> "success"]

ClearDatabase ==
  /\ \E truth \in TruthOutcomes(handle, entries), f \in ClearFailPoints :
       LET r == ClearDatabaseResult(entries, handle, truth, f)
       IN /\ entries' = r.entries
          /\ handle' = r.handle
          \* had: the entries the store held when clear_database was called
          /\ ret' = [op |-> "clear_database", status |-> r.status, had |-> Len(entries)]
  /\ gate' = NoGate
  /\ UNCHANGED <<tmpfiles, batch, qlocals>>

\* get_database_stats(), given whether count() raises
DatabaseStats(es, h, fail) ==
  IF h = "none" THEN [status |-> "not_initialized", total_chunks |-> -1]
  ELSE IF h = "stale" \/ fail THEN [status |-> "error", total_chunks |-> -1]
  ELSE [status |-> "initialized", total_chunks |-> Len(es)]

GetDatabaseStats ==
  /\ \E fail \in BOOLEAN :
       ret' = [op |-> "get_database_stats", stats |-> DatabaseStats(entries, handle, fail)]
  /\ gate' = NoGate
  /\ UNCHANGED <<entries, handle, tmpfiles, batch, qlocals>>

\* initialize_rag_system(): a new engine replaces the session's engine, unless
\* there is no API key or the constructor raises
Initialize ==
  /\ \E ok \in BOOLEAN :
       /\ handle' = IF ok THEN "ok" ELSE handle
       /\ ret' = [op |-> "initialize", ok |-> ok]
  /\ gate' = NoGate
  /\ UNCHANGED <<entries, tmpfiles, batch, qlocals>>

\* ------------------------------------------------------------------ query
\* similarity_search_with_score(question, k): the min(k, count) nearest
\* entries, nearest first, each with its distance.  Which entries are nearest
\* and how far they are depends on the embeddings: any ranking may come back.
Rankings(es, k) ==
  LET m == IF Len(es) < k THEN Len(es) ELSE k
  IN { r \in [1..m -> 1..Len(es)] : \A i, j \in 1..m : i # j => r[i] # r[j] }

Scores(m) ==
  { d \in [1..m -> Distances] : \A i, j \in 1..m : i < j => d[i] <= d[j] }

\* the list _extract_relevant_contexts builds from the (doc, score) pairs
SearchResults(es, k) ==
  { [i \in 1..Len(r) |-> [source |-> es[r[i]].source,
                          chunk_id |-> es[r[i]].chunk_id,
                          relevance_score |-> d[i]]] :
      r \in Rankings(es, k), d \in Scores(IF Len(es) < k THEN Len(es) ELSE k) }

\* round((1 - score) * 100, 2) in hundredths of a percent, for a score in
\* units of 10^-5: (100000 - d) / 10 rounded to the nearest integer, a tie to
\* the even one
Relevance(d) ==
  LET n == 100000 - d
      q == n \div 10
      r == n % 10
  IN IF r > 5 \/ (r = 5 /\ q % 2 = 1) THEN q + 1 ELSE q

\* the loop over contexts with its seen_sources set
RECURSIVE SummaryLoop(_, _, _)
SummaryLoop(ctxs, seen, acc) ==
  IF ctxs = <<>> THEN acc
  ELSE LET c == Head(ctxs)
       IN IF c.source \notin seen
          THEN SummaryLoop(Tail(ctxs), seen \cup {c.source},
                           Append(acc, Line(c.source, Relevance(c.relevance_score))))
          ELSE SummaryLoop(Tail(ctxs), seen, acc)

\* a mutated summary: one line per context, the seen_sources test left out
SourceSummaryNoDedup(ctxs) ==
  <<SourcesHeader>> \o
    [i \in 1..Len(ctxs) |-> Line(ctxs[i].source, Relevance(ctxs[i].relevance_score))]

\* source_summary
SourceSummary(ctxs) == <<SourcesHeader>> \o SummaryLoop(ctxs, {}, <<>>)

\* Where the grounded branch can fail: building the RetrievalQA chain, the
\* chain's own retrieval, the generation call.
ChainFailPoints == {"none", "construct", "retrieve", "generate"}

ChainFailsAt(h, f) ==
  IF h = "stale" /\ f \in {"none", "generate"} THEN "retrieve" ELSE f

\* a mutated grounded branch: the source list is appended to the error too
GroundedAnswerErrorWithSources(ctxs, at) ==
  IF at # "none" THEN <<ErrProcessing, ExcMsg(at)>> \o SourceSummary(ctxs)
  ELSE <<GroundedContent>> \o SourceSummary(ctxs)

\* what query returns from its grounded branch
GroundedAnswer(ctxs, at) ==
  IF at # "none" THEN <<ErrProcessing, ExcMsg(at)>>
  ELSE <<GroundedContent>> \o SourceSummary(ctxs)

\* what _query_without_context returns once its own gate accepted
FallbackAnswer(genFails) ==
  IF genFails THEN <<ErrGenerating, ExcMsg("generate")>>
  ELSE <<FallbackContent, DisclaimerNote>>

\* the running query returns value; its frame is dropped
\* (chain_docs: the documents the chain's own retriever fetched, if it ran)
Returned(exit, value, cs, cnt, ctxs, failure, docs) ==
  /\ ret' = [op |-> "query", question |-> question, exit |-> exit, value |-> value,
             calls |-> cs, count |-> cnt, contexts |-> ctxs, failure |-> failure,
             chain_docs |-> docs]
  /\ qpc' = "idle"
  /\ question' = NoQuestion
  /\ calls' = <<>>
  /\ qcount' = -1
  /\ contexts' = <<>>

\* query(question) is called
QueryStart(q) ==
  /\ qpc = "idle"
  /\ qpc' = "gate"
  /\ question' = q
  /\ ret' = NoRet
  /\ gate' = NoGate
  /\ UNCHANGED <<entries, handle, tmpfiles, batch, calls, qcount, contexts>>

\* a mutated gate step: the store is counted before the verdict is used
QueryGateCountsFirst ==
  /\ qpc = "gate"
  /\ \E o \in ClassifyOutcomes :
       LET v == IsMedicalQuestion(o)
           cs == <<"classify", "count">>
       IN /\ gate' = [outcome |-> o, verdict |-> v]
          /\ IF v
             THEN /\ qpc' = "count"
                  /\ calls' = <<"classify">>
                  /\ UNCHANGED <<question, qcount, contexts, ret>>
             ELSE Returned("gate", OutOfContextMsg, cs, qcount, contexts, "none", <<>>)
  /\ UNCHANGED <<entries, handle, tmpfiles, batch>>

\* if not self._is_medical_question(question): return the rejection
QueryGate ==
  /\ qpc = "gate"
  /\ \E o \in ClassifyOutcomes :
       LET v == IsMedicalQuestion(o)
           cs == Append(calls, "classify")
       IN /\ gate' = [outcome |-> o, verdict |-> v]
          /\ IF v
             THEN /\ qpc' = "count"
                  /\ calls' = cs
                  /\ UNCHANGED <<question, qcount, contexts, ret>>
             ELSE Returned("gate", OutOfContextMsg, cs, qcount, contexts, "none", <<>>)
  /\ UNCHANGED <<entries, handle, tmpfiles, batch>>

\* a mutated count step: a failing count() resets the collection
QueryCountResets ==
  /\ qpc = "count"
  /\ \E fail \in BOOLEAN :
       IF handle = "stale" \/ fail
       THEN /\ entries' = <<>>
            /\ Returned("count", <<ErrProcessing, ExcMsg("count")>>, Append(calls, "count"),
                        qcount, contexts, "count", <<>>)
       ELSE /\ entries' = entries
            /\ qcount' = Len(entries)
            /\ calls' = Append(calls, "count")
            /\ qpc' = IF Len(entries) = 0 THEN "fb_gate" ELSE "search"
            /\ UNCHANGED <<question, contexts, ret>>
  /\ gate' = NoGate
  /\ UNCHANGED <<handle, tmpfiles, batch>>

\* if self.vectorstore is None or self.vectorstore._collection.count() == 0
QueryCount ==
  /\ qpc = "count"
  /\ \E fail \in BOOLEAN :
       IF handle = "none"
       THEN /\ qpc' = "fb_gate"
            /\ UNCHANGED <<question, calls, qcount, contexts, ret>>
       ELSE IF handle = "stale" \/ fail
       THEN Returned("count", <<ErrProcessing, ExcMsg("count")>>, Append(calls, "count"),
                     qcount, contexts, "count", <<>>)
       ELSE /\ qcount' = Len(entries)
            /\ calls' = Append(calls, "count")
            /\ qpc' = IF Len(entries) = 0 THEN "fb_gate" ELSE "search"
            /\ UNCHANGED <<question, contexts, ret>>
  /\ gate' = NoGate
  /\ UNCHANGED <<entries, handle, tmpfiles, batch>>

\* contexts = self._extract_relevant_contexts(question, k); if not contexts
QuerySearch ==
  /\ qpc = "search"
  /\ \E truth \in TruthOutcomes(handle, entries), fail \in BOOLEAN,
        res \in SearchResults(entries, K) :
       IF truth = "raise"
       THEN Returned("search", <<ErrProcessing, ExcMsg("search")>>, calls,
                     qcount, contexts, "search", <<>>)
       ELSE IF truth = "false"
       THEN /\ qpc' = "fb_gate"
            /\ contexts' = <<>>
            /\ UNCHANGED <<question, calls, qcount, ret>>
       ELSE IF handle = "stale" \/ fail
       THEN Returned("search", <<ErrProcessing, ExcMsg("search")>>, Append(calls, "search"),
                     qcount, contexts, "search", <<>>)
       ELSE /\ contexts' = res
            /\ calls' = Append(calls, "search")
            /\ qpc' = IF res = <<>> THEN "fb_gate" ELSE "chain"
            /\ UNCHANGED <<question, qcount, ret>>
  /\ gate' = NoGate
  /\ UNCHANGED <<entries, handle, tmpfiles, batch>>

\* _query_without_context: its own _is_medical_question(question) call
FallbackGate ==
  /\ qpc = "fb_gate"
  /\ \E o \in ClassifyOutcomes :
       LET v == IsMedicalQuestion(o)
           cs == Append(calls, "classify")
       IN /\ gate' = [outcome |-> o, verdict |-> v]
          /\ IF v
             THEN /\ qpc' = "fb_gen"
                  /\ calls' = cs
                  /\ UNCHANGED <<question, qcount, contexts, ret>>
             ELSE Returned("fb_gate", OutOfContextMsg, cs, qcount, contexts, "none", <<>>)
  /\ UNCHANGED <<entries, handle, tmpfiles, batch>>

\* _query_without_context: self.llm.invoke(fallback_prompt)
FallbackGenerate ==
  /\ qpc = "fb_gen"
  /\ \E fail \in BOOLEAN :
       Returned("fb_gen", FallbackAnswer(fail), Append(calls, "generate"), qcount, contexts,
                IF fail THEN "generate" ELSE "none", <<>>)
  /\ gate' = NoGate
  /\ UNCHANGED <<entries, handle, tmpfiles, batch>>

\* the chunk a context or a retrieved document is
ChunkOf(c) == Chunk(c.source, c.chunk_id)

ChunksOf(cs) == [i \in 1..Len(cs) |-> ChunkOf(cs[i])]

\* What the retriever of the chain (self.vectorstore.as_retriever, k) fetches
\* for the question: the same search on the store as it is now.  On the
\* entries that gave ctxs the same question gives the same ranking; on other
\* entries any ranking may come back.
ChainDocs(es, ctxs, k) ==
  LET now == {[i \in 1..Len(r) |-> es[r[i]]] : r \in Rankings(es, k)}
  IN IF ChunksOf(ctxs) \in now THEN {ChunksOf(ctxs)} ELSE now

\* RetrievalQA.from_chain_type(...), qa_chain({"query": question}) and the
\* source summary
QueryChain ==
  /\ qpc = "chain"
  /\ \E f \in ChainFailPoints, docs \in ChainDocs(entries, contexts, K) :
       LET at == ChainFailsAt(handle, f)
           cs == IF at = "construct" THEN calls
                 ELSE IF at = "retrieve" THEN Append(calls, "search")
                 ELSE calls \o <<"search", "generate">>
       IN Returned("chain", GroundedAnswer(contexts, at), cs, qcount, contexts, at,
                   IF at \in {"construct", "retrieve"} THEN <<>> ELSE docs)
  /\ gate' = NoGate
  /\ UNCHANGED <<entries, handle, tmpfiles, batch>>

\* ---------------------------------------------------------- specification
\* One operation at a time: the session's script runs one handler to its end.
Idle == qpc = "idle" /\ batch = <<>>

BatchFiles == UNION {[1..m -> Files] : m \in 1..MaxBatch}

QueryStep ==
  \/ QueryGate
  \/ QueryCount
  \/ QuerySearch
  \/ FallbackGate
  \/ FallbackGenerate
  \/ QueryChain

Next ==
  \/ Idle /\ \E files \in BatchFiles : ProcessDocuments(files)
  \/ AddDocumentStep
  \/ Idle /\ ClearDatabase
  \/ Idle /\ GetDatabaseStats
  \/ Idle /\ Initialize
  \/ Idle /\ \E q \in Questions : QueryStart(q)
  \/ QueryStep

Spec == Init /\ [][Next]_vars

\* Another caller on the same store: while a query runs, one operation of
\* the other caller (the processing of one uploaded file, or a
\* clear_database) may run between two steps of the query.
Overlap == qpc # "idle" /\ batch = <<>> /\ ret = NoRet

NextConc ==
  \/ Next
  \/ Overlap /\ \E file \in Files : ProcessDocuments(<<file>>)
  \/ Overlap /\ ClearDatabase

SpecConc == Init /\ [][NextConc]_vars

\* ------------------------------------------------------------------ claims
\* an iteration of the processing loop: add_document was called and returned
AddReturned == batch # <<>> /\ batch' = Tail(batch) /\ ret'.op = "add_document"

\* the first _is_medical_question call of a query returned in this step
StartGateReturned == qpc = "gate" /\ gate'.outcome.kind # "none"

\* a step of query: its call, one of its external calls, its return
QueryActs == qpc # "idle" \/ qpc' # "idle"

\* get_database_stats was called and returned
StatsReturned == Idle /\ ret'.op = "get_database_stats"

\* clear_database was called and returned
ClearReturned == Idle /\ ret'.op = "clear_database"

ErrorPrefixes == {ErrProcessing, ErrGenerating}

Occurrences(s, x) == Cardinality({i \in 1..Len(s) : s[i] = x})

\* C1: when the gate at the start of query returns false, query returns
\* exactly the rejection message, and the classification request is the only
\* external call it issued: no count, no search, no generation.
C1_OutOfDomainShortCircuit ==
  [][ (StartGateReturned /\ ~gate'.verdict)
        => /\ qpc' = "idle"
           /\ ret'.op = "query"
           /\ ret'.value = OutOfContextMsg
           /\ ret'.calls = <<"classify">> ]_vars

C1_Witness ==
  /\ ret.op = "query"
  /\ ret.exit = "gate"
  /\ gate.outcome.kind = "text"
  /\ ~gate.verdict

\* C2: a query whose gate at its start accepted and to which count() returned
\* 0 issues no similarity search and, unless the generation call fails,
\* returns the fallback response followed by the no-literature disclaimer.
C2_EmptyStoreFallback ==
  (ret.op = "query" /\ ret.count = 0 /\ ret.failure = "none")
    => /\ "search" \notin Range(ret.calls)
       /\ ret.value = <<FallbackContent, DisclaimerNote>>

\* C3: _is_medical_question returns true exactly when the classification call
\* failed (it raised, or its response has no readable content) or the
\* response text holds t, r, u, e in a row in any case; a failure never
\* makes it return false.
C3_GateVerdict ==
  gate.outcome.kind # "none"
    => LET c == gate.outcome.content
       IN gate.verdict <=>
            \/ gate.outcome.kind \in {"raise", "nocontent"}
            \/ \E i \in 1..(Len(c) - 3) :
                 /\ c[i] \in {"t", "T"}
                 /\ c[i + 1] \in {"r", "R"}
                 /\ c[i + 2] \in {"u", "U"}
                 /\ c[i + 3] \in {"e", "E"}

C3_Witness ==
  /\ gate.outcome.kind = "text"
  /\ gate.outcome.content = <<"u","n","t","r","u","e">>
  /\ gate.verdict

\* C4: an add_document call that fails at add_documents or at persist returns
\* status error and leaves count() as it was before the call.
C4_IngestionAtomicity ==
  [][ (AddReturned /\ ret'.at \in {"add", "persist"})
        => /\ ret'.result.status = "error"
           /\ Len(entries') = Len(entries) ]_vars

\* C5: query returns a string whatever fails; when the count, a similarity
\* search, the chain or the generation call failed, the string starts with an
\* error prefix and holds neither the disclaimer nor the source list header,
\* and no other returned string starts with an error prefix.
C5_QueryNeverRaises ==
  ret.op = "query"
    => /\ ret.value # <<>>
       /\ \A i \in 1..Len(ret.value) : ret.value[i].t \in {"text", "line"}
       /\ ret.failure # "none"
            => /\ Head(ret.value) \in ErrorPrefixes
               /\ DisclaimerNote \notin Range(ret.value)
               /\ SourcesHeader \notin Range(ret.value)
               /\ \A i \in 1..Len(ret.value) : ret.value[i].t = "text"
       /\ ret.failure = "none" => Head(ret.value) \notin ErrorPrefixes

C5_Witness ==
  /\ ret.op = "query"
  /\ ret.exit = "chain"
  /\ ret.failure = "generate"
  /\ Len(ret.contexts) >= 2

\* The returned string ends with the source list of the retrieved contexts:
\* after the model's response, the header and one line per distinct source,
\* in order of first appearance, with the relevance of the first context of
\* that source.
EndsWithSourceList(value, ctxs) ==
  LET srcs == {ctxs[i].source : i \in 1..Len(ctxs)}
      n == Cardinality(srcs)
      First(src) == CHOOSE i \in 1..Len(ctxs) :
                      /\ ctxs[i].source = src
                      /\ \A j \in 1..(i - 1) : ctxs[j].source # src
  IN /\ Len(value) = 2 + n
     /\ value[1] = GroundedContent
     /\ value[2] = SourcesHeader
     /\ \A p \in 1..n :
          /\ value[2 + p].t = "line"
          /\ value[2 + p].s \in srcs
          /\ value[2 + p].rel * 10 - (100000 - ctxs[First(value[2 + p].s)].relevance_score) \in -5..5
     /\ \A p, q \in 1..n :
          p < q => /\ value[2 + p].s # value[2 + q].s
                   /\ First(value[2 + p].s) < First(value[2 + q].s)

\* C6, as stated: a query that counted at least one entry and retrieved at
\* least one context returns a string ending with the source list.
C6_GroundedSourceList ==
  (ret.op = "query" /\ ret.count > 0 /\ ret.contexts # <<>>)
    => EndsWithSourceList(ret.value, ret.contexts)

\* C6, amended: ... provided the chain is built and its retrieval and the
\* generation call succeed.
C6_GroundedSourceListOnSuccess ==
  (ret.op = "query" /\ ret.count > 0 /\ ret.contexts # <<>> /\ ret.failure = "none")
    => /\ ret.exit = "chain"
       /\ EndsWithSourceList(ret.value, ret.contexts)

C6_Witness ==
  /\ ret.op = "query"
  /\ ret.failure = "none"
  /\ Len(ret.contexts) = 3
  /\ ret.contexts[1].source = "b.pdf"
  /\ ret.contexts[2].source = "a.pdf"
  /\ ret.contexts[3].source = "b.pdf"
  /\ ret.contexts[1].relevance_score < ret.contexts[3].relevance_score
  /\ Len(ret.value) = 4

\* C7: every query issues exactly one classification request, before any
\* other external call.
C7_OneGateRoundTrip ==
  ret.op = "query"
    => /\ Occurrences(ret.calls, "classify") = 1
       /\ ret.calls[1] = "classify"

\* C8: add_document returns, whatever step fails, and then the record has
\* status error, the document's name and the message of the failure; the
\* loop has its next file to process.
C8_AddDocumentNeverRaises ==
  ret.op = "add_document"
    => /\ ~ret.raised
       /\ ret.at # "none"
            => ret.result = [status |-> "error", filename |-> ret.file, error |-> ExcMsg(ret.at)]
       /\ ret.at = "none"
            => ret.result = [status |-> "success", filename |-> ret.file, chunks_created |-> ret.chunks]
       /\ batch # <<>> => ENABLED AddDocumentStep

C8_Witness ==
  /\ ret.op = "add_document"
  /\ ret.at = "persist"
  /\ ret.result.status = "error"
  /\ batch # <<>>

\* C9: a step of query (each of its branches) and get_database_stats leave
\* the entries and the handle as they are; a step that changes the entries is
\* a step of add_document or of clear_database.
C9_StoreFrame ==
  /\ [][ (QueryActs \/ StatsReturned) => (entries' = entries /\ handle' = handle) ]_vars
  /\ [][ entries' # entries => (AddReturned \/ ClearReturned) ]_vars

C9_Witness ==
  /\ ret.op = "query"
  /\ ret.exit = "chain"
  /\ ret.count >= 2
  /\ Len(entries) = ret.count

SameRetrieved(a, b) ==
  /\ Len(a) = Len(b)
  /\ \A c \in Range(a) \cup Range(b) : Occurrences(a, c) = Occurrences(b, c)

\* a query returned from its grounded branch after the generation call
GroundedReturned == ret.op = "query" /\ ret.exit = "chain" /\ ret.failure = "none"

\* C11: a grounded query searched the index once, and the documents that
\* went into the generation request are the contexts the source list was
\* built from, also when another caller's add_document or clear_database ran
\* in between.
C11_OneRetrieval ==
  GroundedReturned
    => /\ Occurrences(ret.calls, "search") = 1
       /\ SameRetrieved(ret.chain_docs, ChunksOf(ret.contexts))

\* C11, the conclusion alone: without a second caller the two retrievals of a
\* grounded query fetch the same chunks; with one they need not.
C11_SameRetrievedSet ==
  GroundedReturned => SameRetrieved(ret.chain_docs, ChunksOf(ret.contexts))

\* C12: the loop reports a file as processed only when add_document
\* returned status success for it.
C12_ProcessedOnlyOnSuccess ==
  (ret.op = "add_document" /\ ret.report = "processed")
    => ret.result.status = "success"

\* C13: no temporary file is left on disk, whatever add_document calls ran
\* and however they ended.
C13_NoTempFileLeft == tmpfiles = 0

====
